---------------------------- MODULE Spec2Model ----------------------------
(***************************************************************************)
(* A model of the planar-arm kinematics of kinematics.py:                  *)
(* forward_kinematics, inverse_kinematics_2dof and set_joint_angles, with  *)
(* the scenario of test.py and the handlers of the GUI (gui/gui.py,        *)
(* gui/sliders.py) that call them.                                         *)
(*                                                                         *)
(* Numbers.  The code computes with floats and math.cos/sin/acos/atan2.    *)
(* The model computes with exact values of the field Q(sqrt 3): a number   *)
(* is <<a, b, n>>, meaning (a + b*sqrt(3)) / n with n > 0 and              *)
(* gcd(a, b, n) = 1, so that equal numbers are equal tuples.  An angle is  *)
(* an integer count of units of pi/6 (30 degrees); cos and sin of such an  *)
(* angle are exact in Q(sqrt 3).  sqrt, acos and atan2 are exact where     *)
(* their value lies in the field or on the angle grid; the input sets      *)
(* keep the calls whose values are on the grid.                            *)
(*                                                                         *)
(* Rounding.  A float operation on values that are not exact floats gives  *)
(* a neighbour of the exact result.  The model keeps the exact value and   *)
(* the side the computed value of C and of B fell on (rounding.C and       *)
(* rounding.B: -1 below, 0 exact, 1 above); the side decides the two       *)
(* tests the code makes on them, -1 <= C <= 1 and the domain of acos(B),   *)
(* when the exact value is -1 or 1.  The side is a function of the         *)
(* arguments the model does not compute: it is drawn with them in the      *)
(* initial state and is 0 when every operand is an exact float.  Angles    *)
(* and positions are kept exact: they stand for the floats nearest them.   *)
(***************************************************************************)
EXTENDS Integers, Sequences, FiniteSets, TLC

VARIABLES robot, links, target, rounding, solutions, positions, op, sliders

vars == <<robot, links, target, rounding, solutions, positions, op, sliders>>

-----------------------------------------------------------------------------
(* Exact arithmetic in Q(sqrt 3).                                          *)

Abs(i) == IF i < 0 THEN -i ELSE i

RECURSIVE GCD(_, _)
GCD(i, j) == IF j = 0 THEN Abs(i) ELSE GCD(j, i % j)

\* the canonical tuple of (a + b*sqrt 3) / n, n # 0
Norm(a, b, n) ==
    LET g == GCD(GCD(Abs(a), Abs(b)), Abs(n))
        s == IF n < 0 THEN -1 ELSE 1
    IN  <<(s * a) \div g, (s * b) \div g, (s * n) \div g>>

Rat(p, q) == Norm(p, 0, q)
Num(i) == <<i, 0, 1>>
Zero == Num(0)
One == Num(1)
Sqrt3 == <<0, 1, 1>>

Add(u, v) == Norm(u[1] * v[3] + v[1] * u[3], u[2] * v[3] + v[2] * u[3], u[3] * v[3])
Neg(u) == <<-u[1], -u[2], u[3]>>
Sub(u, v) == Add(u, Neg(v))
Mul(u, v) == Norm(u[1] * v[1] + 3 * u[2] * v[2], u[1] * v[2] + u[2] * v[1], u[3] * v[3])
Sq(u) == Mul(u, u)

SignInt(i) == IF i > 0 THEN 1 ELSE IF i < 0 THEN -1 ELSE 0

\* the sign of a + b*sqrt 3
Sign(u) ==
    LET a == u[1]
        b == u[2]
    IN  IF a >= 0 /\ b >= 0 THEN SignInt(a + b)
        ELSE IF a <= 0 /\ b <= 0 THEN -1
        ELSE IF a > 0 THEN SignInt(a * a - 3 * b * b)
        ELSE SignInt(3 * b * b - a * a)

Leq(u, v) == Sign(Sub(u, v)) <= 0
Less(u, v) == Sign(Sub(u, v)) < 0

\* u / v for v # 0: multiply by the conjugate of v
Div(u, v) ==
    LET c == v[1] * v[1] - 3 * v[2] * v[2]
        w == Mul(u, <<v[1], -v[2], 1>>)
    IN  Norm(w[1] * v[3], w[2] * v[3], w[3] * c)

RECURSIVE ISqrt(_, _)
ISqrt(i, r) == IF (r + 1) * (r + 1) > i THEN r ELSE ISqrt(i, r + 1)

\* the square roots of u >= 0 that lie in Q(sqrt 3), as pairs <<p, q>>:
\* u = (A + B sqrt 3) / n^2 and the root is (p + q sqrt 3) / n
Roots(u) ==
    LET A == u[1] * u[3]
        B == u[2] * u[3]
        m == IF A > 0 THEN ISqrt(A, 0) ELSE 0
        \* 2pq = B leaves one q for p # 0; 3q^2 = A leaves two for p = 0
        qs(p) == IF p = 0 THEN {ISqrt(Abs(A) \div 3, 0), -ISqrt(Abs(A) \div 3, 0)}
                 ELSE {SignInt(B) * SignInt(p) * (Abs(B) \div (2 * Abs(p)))}
    IN  {pq \in UNION {{<<p, q>> : q \in qs(p)} : p \in -m..m} :
            /\ pq[1] * pq[1] + 3 * pq[2] * pq[2] = A
            /\ 2 * pq[1] * pq[2] = B
            /\ Sign(<<pq[1], pq[2], 1>>) >= 0}

SqrtInField(u) == Roots(u) # {}

\* u ** 0.5: the non-negative square root (where SqrtInField(u))
Sqrt(u) ==
    LET pq == CHOOSE r \in Roots(u) : TRUE
    IN  Norm(pq[1], pq[2], u[3])

-----------------------------------------------------------------------------
(* Angles in units of pi/6, and math.cos, sin, acos, atan2 on the grid.    *)

pi == 6

Half == Rat(1, 2)
HalfSqrt3 == <<0, 1, 2>>

\* cos(k * pi/6), exact; the angle itself is never normalised, only the
\* table look-up is periodic
cos(k) ==
    LET r == k % (2 * pi)
    IN  CASE r = 0 -> One
          [] r \in {1, 11} -> HalfSqrt3
          [] r \in {2, 10} -> Half
          [] r \in {3, 9} -> Zero
          [] r \in {4, 8} -> Neg(Half)
          [] r \in {5, 7} -> Neg(HalfSqrt3)
          [] r = 6 -> Neg(One)

\* sin(a) = cos(a - pi/2)
sin(k) == cos(k - 3)

\* whether the float computed for the exact value v, fallen on side e of
\* it, is outside [-1, 1]
Outside(v, e) ==
    \/ Less(One, v) \/ (v = One /\ e > 0)
    \/ Less(v, Neg(One)) \/ (v = Neg(One) /\ e < 0)

AcosOnGrid(v) == \E k \in 0..pi : cos(k) = v

\* math.acos(v): the angle in [0, pi] whose cosine is v (where AcosOnGrid(v))
acos(v) == CHOOSE k \in 0..pi : cos(k) = v

\* the grid directions of the point (x, y) # (0, 0)
Directions(y, x) ==
    LET d2 == Add(Sq(x), Sq(y))
        d == Sqrt(d2)
    IN  IF ~SqrtInField(d2) THEN {}
        ELSE {k \in (1 - pi)..pi : x = Mul(d, cos(k)) /\ y = Mul(d, sin(k))}

Atan2OnGrid(y, x) == (x = Zero /\ y = Zero) \/ Directions(y, x) # {}

\* math.atan2(y, x): the angle in (-pi, pi] of the point (x, y); 0 at (0, 0)
atan2(y, x) ==
    IF x = Zero /\ y = Zero THEN 0
    ELSE CHOOSE k \in Directions(y, x) : TRUE

\* round(v, 2) in hundredths: the integer nearest to 100*v, ties to even
Floor(u) ==
    LET a == u[1]
        b == u[2]
        fb == IF b >= 0 THEN ISqrt(3 * b * b, 0)
              ELSE -(ISqrt(3 * b * b, 0) + 1)
    IN  (a + fb) \div u[3]

round2(v) ==
    LET h == Mul(Num(100), v)
        f == Floor(h)
        frac == Sub(h, Num(f))
    IN  IF Less(frac, Half) THEN f
        ELSE IF Less(Half, frac) THEN f + 1
        ELSE IF f % 2 = 0 THEN f ELSE f + 1

-----------------------------------------------------------------------------
(* The data model: Joint, Link, Robot.                                     *)

REVOLUTE == "REVOLUTE"

Joint(id, type, angle) == [class |-> "Joint", id |-> id, type |-> type, angle |-> angle]

Link(id, length) == [class |-> "Link", id |-> id, length |-> length]

Origin == <<Zero, Zero>>

\* Robot(components=...): base is the class attribute (0.0, 0.0)
Robot(components) == [base |-> Origin, components |-> components]

isJoint(component) == component.class = "Joint"
isLink(component) == component.class = "Link"

-----------------------------------------------------------------------------
(* forward_kinematics.  The frame of a call holds its locals and the robot *)
(* it was given, so that a write to the argument would show.               *)

\* the locals before the loop
FkEnter(r) ==
    [x |-> r.base[1], y |-> r.base[2], joint_positions |-> <<r.base>>,
     direction |-> 0, robot |-> r]

\* FkBody variants used to test the claims' formulas (not the code):
\* a point appended for Links only
FkBodyLinksOnly(st, i) ==
    LET component == st.robot.components[i]
    IN  IF isJoint(component)
        THEN [st EXCEPT !.direction = @ + component.angle]
        ELSE LET x == Add(st.x, Mul(component.length, cos(st.direction)))
                 y == Add(st.y, Mul(component.length, sin(st.direction)))
             IN  [st EXCEPT !.x = x, !.y = y,
                            !.joint_positions = Append(@, <<x, y>>)]

\* the accumulated direction written back into the joint
FkBodyInPlace(st, i) ==
    LET component == st.robot.components[i]
        moved == IF isJoint(component)
                 THEN [st EXCEPT !.direction = @ + component.angle,
                                 !.robot.components[i].angle = st.direction + component.angle]
                 ELSE [st EXCEPT !.x = Add(@, Mul(component.length, cos(st.direction))),
                                 !.y = Add(@, Mul(component.length, sin(st.direction)))]
    IN  [moved EXCEPT !.joint_positions = Append(@, <<moved.x, moved.y>>)]

\* the direction kept within one turn
FkBodyNormalised(st, i) ==
    LET component == st.robot.components[i]
        moved == IF isJoint(component)
                 THEN [st EXCEPT !.direction = (@ + component.angle) % (2 * pi)]
                 ELSE [st EXCEPT !.x = Add(@, Mul(component.length, cos(st.direction))),
                                 !.y = Add(@, Mul(component.length, sin(st.direction)))]
    IN  [moved EXCEPT !.joint_positions = Append(@, <<moved.x, moved.y>>)]

\* one pass of the loop body, on component number i
FkBody(st, i) ==
    LET component == st.robot.components[i]
        moved == IF isJoint(component)
                 THEN [st EXCEPT !.direction = @ + component.angle]
                 ELSE IF isLink(component)
                 THEN [st EXCEPT !.x = Add(@, Mul(component.length, cos(st.direction))),
                                 !.y = Add(@, Mul(component.length, sin(st.direction)))]
                 ELSE st
    IN  [moved EXCEPT !.joint_positions = Append(@, <<moved.x, moved.y>>)]

RECURSIVE FkLoop(_, _)
FkLoop(st, i) ==
    IF i > Len(st.robot.components) THEN st ELSE FkLoop(FkBody(st, i), i + 1)

\* the frame at the return; the value returned is its joint_positions
forward_kinematics(r) == FkLoop(FkEnter(r), 1)

-----------------------------------------------------------------------------
(* inverse_kinematics_2dof.  An outcome is the value returned or the       *)
(* exception that leaves the function.                                     *)

Return(v) == [status |-> "return", value |-> v]
Raise(e) == [status |-> e, value |-> <<>>]

\* a variant used to test the claims' formulas (not the code):
\* the elbow angles of the two branches exchanged
BranchesElbowSwapped(base_angle, c, b) ==
    [elbow_up |-> [q1 |-> Joint("q1", REVOLUTE, base_angle + c),
                   q2 |-> Joint("q2", REVOLUTE, pi - b)],
     elbow_down |-> [q1 |-> Joint("q1", REVOLUTE, base_angle - c),
                     q2 |-> Joint("q2", REVOLUTE, b - pi)]]

\* the dictionary of the two branches
Branches(base_angle, c, b) ==
    [elbow_up |-> [q1 |-> Joint("q1", REVOLUTE, base_angle + c),
                   q2 |-> Joint("q2", REVOLUTE, b - pi)],
     elbow_down |-> [q1 |-> Joint("q1", REVOLUTE, base_angle - c),
                     q2 |-> Joint("q2", REVOLUTE, pi - b)]]

\* not -1 <= C <= 1, on the float computed for C
Unreachable(C, fl) == Outside(C, fl.C)

\* math.acos(B) raises ValueError ("math domain error") outside [-1, 1]
AcosRaises(B, fl) == Outside(B, fl.B)

\* C and B, the two cosines of the Law of Cosines
CosC(L1, L2, d2, d) == Div(Sub(Add(Sq(L1), d2), Sq(L2)), Mul(Mul(Num(2), L1), d))
CosB(L1, L2, d2) == Div(Sub(Add(Sq(L1), Sq(L2)), d2), Mul(Mul(Num(2), L1), L2))

\* fl: the sides the floats computed for C and B fell on
inverse_kinematics_2dof(lks, target_end_effector_pos, fl) ==
    IF Len(lks) < 2 THEN Raise("IndexError")
    ELSE LET L1 == lks[1].length
             L2 == lks[2].length
             x == target_end_effector_pos[1]
             y == target_end_effector_pos[2]
             d2 == Add(Sq(x), Sq(y))
             d == Sqrt(d2)
             base_angle == atan2(y, x)
         IN  IF Mul(Mul(Num(2), L1), d) = Zero THEN Raise("ZeroDivisionError")
             ELSE IF Unreachable(CosC(L1, L2, d2, d), fl) THEN Return(<<>>)
             ELSE IF Mul(Mul(Num(2), L1), L2) = Zero THEN Raise("ZeroDivisionError")
             ELSE IF AcosRaises(CosB(L1, L2, d2), fl) THEN Raise("ValueError")
             ELSE Return(Branches(base_angle, acos(CosC(L1, L2, d2, d)),
                                  acos(CosB(L1, L2, d2))))

\* the calls that go on to evaluate acos(C) and acos(B) and return
IKSolves(lks, t, fl) ==
    LET d2 == Add(Sq(t[1]), Sq(t[2]))
    IN  /\ Len(lks) >= 2
        /\ Mul(Mul(Num(2), lks[1].length), Sqrt(d2)) # Zero
        /\ ~Unreachable(CosC(lks[1].length, lks[2].length, d2, Sqrt(d2)), fl)
        /\ Mul(Mul(Num(2), lks[1].length), lks[2].length) # Zero
        /\ ~AcosRaises(CosB(lks[1].length, lks[2].length, d2), fl)

\* the calls whose square root, atan2 and acos values are exact in the model
IKOnGrid(lks, t, fl) ==
    LET d2 == Add(Sq(t[1]), Sq(t[2]))
    IN  /\ SqrtInField(d2)
        /\ Atan2OnGrid(t[2], t[1])
        /\ IKSolves(lks, t, fl)
              => /\ AcosOnGrid(CosC(lks[1].length, lks[2].length, d2, Sqrt(d2)))
                 /\ AcosOnGrid(CosB(lks[1].length, lks[2].length, d2))

\* an exact float: a rational with a power of two as denominator
RECURSIVE IsPow2(_)
IsPow2(n) == n = 1 \/ (n % 2 = 0 /\ IsPow2(n \div 2))

Dyadic(u) == u[2] = 0 /\ IsPow2(u[3])

\* the lengths, the target and its distance are all exact floats, so that
\* the squares, sums and quotients of lines 60-77 are computed exactly
ExactOperands(lks, t) ==
    LET d2 == Add(Sq(t[1]), Sq(t[2]))
    IN  /\ Dyadic(lks[1].length) /\ Dyadic(lks[2].length)
        /\ Dyadic(t[1]) /\ Dyadic(t[2])
        /\ SqrtInField(d2) /\ Dyadic(Sqrt(d2))

NoError == [C |-> 0, B |-> 0]

\* the exact C is -1 or 1 (then so is B): the target is on the inner or
\* the outer circle of the annulus
OnCircle(lks, t) ==
    LET d2 == Add(Sq(t[1]), Sq(t[2]))
    IN  /\ Len(lks) >= 2
        /\ SqrtInField(d2)
        /\ Mul(Mul(Num(2), lks[1].length), Sqrt(d2)) # Zero
        /\ CosC(lks[1].length, lks[2].length, d2, Sqrt(d2)) \in {One, Neg(One)}

\* the sides the computed C and B can fall on; elsewhere than on the two
\* circles the side decides nothing and is left 0
Roundings(lks, t) ==
    IF OnCircle(lks, t) /\ ~ExactOperands(lks, t)
    THEN [C : {-1, 0, 1}, B : {-1, 0, 1}]
    ELSE {NoError}

-----------------------------------------------------------------------------
(* set_joint_angles.  The frame holds the robot and the dictionary given.  *)

\* a SetBody variant used to test the claims' formulas (not the code):
\* no isinstance filter, so a Link whose id is a key is given an angle
SetBodyNoFilter(st, i) ==
    LET joint == st.robot.components[i]
        angle == st.new_joint_angles[joint.id].angle
    IN  IF joint.id \in DOMAIN st.new_joint_angles
        THEN [st EXCEPT !.robot.components[i] =
                 [f \in DOMAIN joint \cup {"angle"} |->
                     IF f = "angle" THEN angle ELSE joint[f]]]
        ELSE st

\* the loop body on component number i; Links are filtered out
SetBody(st, i) ==
    LET joint == st.robot.components[i]
    IN  IF isJoint(joint) /\ joint.id \in DOMAIN st.new_joint_angles
        THEN [st EXCEPT !.robot.components[i].angle = st.new_joint_angles[joint.id].angle]
        ELSE st

RECURSIVE SetLoop(_, _)
SetLoop(st, i) ==
    IF i > Len(st.robot.components) THEN st ELSE SetLoop(SetBody(st, i), i + 1)

set_joint_angles(r, new_joint_angles) ==
    SetLoop([robot |-> r, new_joint_angles |-> new_joint_angles], 1)

-----------------------------------------------------------------------------
(* The state: the robot, the arguments and the result of the latest        *)
(* inverse_kinematics_2dof call, the list the latest forward_kinematics    *)
(* call returned since the robot was last written (<<>> when none), a      *)
(* record of the latest call, and the values of the GUI's slider widgets.  *)

NoCall == [status |-> "none", value |-> <<>>]

\* no slider widgets: the program runs without the GUI
NoSliders == <<>>

LinksOf(r) == SelectSeq(r.components, isLink)

CallForwardKinematics ==
    LET st == forward_kinematics(robot)
    IN  /\ robot' = st.robot
        /\ positions' = st.joint_positions
        /\ op' = [name |-> "forward_kinematics", pre |-> robot,
                  previous |-> positions, direction |-> st.direction]
        /\ UNCHANGED <<links, target, rounding, solutions, sliders>>

CallInverseKinematics ==
    /\ solutions' = inverse_kinematics_2dof(links, target, rounding)
    /\ op' = [name |-> "inverse_kinematics_2dof", pre |-> robot]
    /\ UNCHANGED <<robot, links, target, rounding, positions, sliders>>

CallSetJointAngles(new_joint_angles) ==
    LET st == set_joint_angles(robot, new_joint_angles)
    IN  /\ robot' = st.robot
        /\ positions' = <<>>
        /\ op' = [name |-> "set_joint_angles", pre |-> robot,
                  new_joint_angles |-> new_joint_angles, after |-> st.new_joint_angles]
        /\ UNCHANGED <<links, target, rounding, solutions, sliders>>

-----------------------------------------------------------------------------
(* SpecRobot: forward_kinematics and set_joint_angles on any robot.        *)

MaxComponents == 3

JointIds == <<"q1", "q2", "q3", "q4", "q5", "q6">>
LinkIds == <<"l1", "l2", "l3", "l4", "l5", "l6">>

\* joint angles (0, -120 and 210 degrees) and link lengths of the robots
RobotAngles == <<0, -4, 7>>
RobotLengths == <<One, Sqrt3, Num(2)>>
Bases == {Origin, <<Num(1), Num(-2)>>}

\* the robot with the given classes and values, ids numbered per class
Build(classes, values) ==
    [i \in 1..Len(classes) |->
        LET n == Cardinality({j \in 1..i : classes[j] = classes[i]})
        IN  IF classes[i] = "Joint"
            THEN Joint(JointIds[n], REVOLUTE, RobotAngles[values[i]])
            ELSE Link(LinkIds[n], RobotLengths[values[i]])]

Robots ==
    UNION {
      {[Robot(Build(classes, values)) EXCEPT !.base = base] :
          classes \in [1..n -> {"Joint", "Link"}], values \in [1..n -> 1..3],
          base \in Bases} : n \in 0..MaxComponents}

\* dictionaries given to set_joint_angles: any keys among two joint ids, a
\* link id and an id no component has
SolutionAngle == [q1 |-> 2, q2 |-> -5, l1 |-> 4, q9 |-> 1]
Solutions == {[k \in K |-> Joint(k, REVOLUTE, SolutionAngle[k])] : K \in SUBSET DOMAIN SolutionAngle}

InitRobot ==
    /\ robot \in Robots
    /\ links = <<>>
    /\ target = Origin
    /\ rounding = NoError
    /\ solutions = NoCall
    /\ positions = <<>>
    /\ op = [name |-> "init"]
    /\ sliders = NoSliders

SetAnyJointAngles == \E s \in Solutions : CallSetJointAngles(s)

NextRobot == CallForwardKinematics \/ SetAnyJointAngles

SpecRobot == InitRobot /\ [][NextRobot]_vars

-----------------------------------------------------------------------------
(* Claims about forward_kinematics and set_joint_angles, under SpecRobot.  *)

CalledFK == op.name = "forward_kinematics"
CalledSet == op.name = "set_joint_angles"

C3_Pure ==
    CalledFK =>
        /\ robot = op.pre
        /\ op.previous # <<>> => positions = op.previous

\* forward_kinematics has run twice in a row on a robot with a turned joint
\* before a link
C3_Witness ==
    /\ CalledFK
    /\ op.previous # <<>>
    /\ Len(robot.components) >= 2
    /\ isJoint(robot.components[1]) /\ robot.components[1].angle # 0
    /\ isLink(robot.components[2])

\* C7: set_joint_angles(robot, solution) sets the angle of each Joint whose
\* id is a key of solution to solution[id].angle and changes nothing else:
\* the other Joints, every Link, the component order, the base and solution
\* itself are as before, and keys that match no joint are ignored.
C7_Frame ==
    CalledSet =>
        /\ robot.base = op.pre.base
        /\ Len(robot.components) = Len(op.pre.components)
        /\ op.after = op.new_joint_angles
        /\ \A i \in 1..Len(op.pre.components) :
              LET before == op.pre.components[i]
              IN  IF isJoint(before) /\ before.id \in DOMAIN op.new_joint_angles
                  THEN robot.components[i] =
                          [before EXCEPT !.angle = op.new_joint_angles[before.id].angle]
                  ELSE robot.components[i] = before

\* set_joint_angles has run with the keys "q1", the id of a Link and an id
\* of no component, on a robot that has joints q1 and q2 and link l1: q1 is
\* set, q2 keeps an angle that is not 0
C7_Witness ==
    /\ CalledSet
    /\ DOMAIN op.new_joint_angles = {"q1", "l1", "q9"}
    /\ \E i, j, k \in 1..Len(robot.components) :
          /\ robot.components[i].id = "q1"
          /\ robot.components[i].angle = op.new_joint_angles["q1"].angle
          /\ op.pre.components[i].angle # robot.components[i].angle
          /\ robot.components[j].id = "q2" /\ robot.components[j].angle # 0
          /\ robot.components[k].id = "l1"

\* the sum of the angles of the Joints among the first n components
RECURSIVE SumAngles(_, _)
SumAngles(components, n) ==
    IF n = 0 THEN 0
    ELSE SumAngles(components, n - 1)
         + (IF isJoint(components[n]) THEN components[n].angle ELSE 0)

-----------------------------------------------------------------------------
(* SpecIK: inverse_kinematics_2dof on any list of links and any target.    *)

MaxLinks == 3
MaxRadius2 == 7

\* link lengths, zero included
IKLengths == {Zero, One, Num(2), Sqrt3}

LinkLists ==
    UNION {{[i \in 1..n |-> Link(LinkIds[i], len[i])] : len \in [1..n -> IKLengths]} :
              n \in 0..MaxLinks}

\* target distances: the halves up to MaxRadius2 / 2, and sqrt 3
Radii == {Rat(n, 2) : n \in 0..MaxRadius2} \cup {Sqrt3}

\* targets: every distance in each of the twelve grid directions
Targets == {<<Mul(r, cos(k)), Mul(r, sin(k))>> : r \in Radii, k \in (1 - pi)..pi}

InitIK ==
    /\ robot = Robot(<<>>)
    /\ links \in LinkLists
    /\ target \in Targets
    /\ rounding \in Roundings(links, target)
    /\ IKOnGrid(links, target, rounding)
    /\ solutions = NoCall
    /\ positions = <<>>
    /\ op = [name |-> "init"]
    /\ sliders = NoSliders

NextIK == CallInverseKinematics

SpecIK == InitIK /\ [][NextIK]_vars

-----------------------------------------------------------------------------
(* Claims about inverse_kinematics_2dof, under SpecIK.                     *)

CalledIK == op.name = "inverse_kinematics_2dof"

Distance(t) == Sqrt(Add(Sq(t[1]), Sq(t[2])))

AbsNum(u) == IF Sign(u) < 0 THEN Neg(u) ELSE u

\* d lies in [|L1 - L2|, L1 + L2]
InAnnulus(L1, L2, d) == Leq(AbsNum(Sub(L1, L2)), d) /\ Leq(d, Add(L1, L2))

\* C4: with two links of positive lengths and a target at a distance d > 0,
\* inverse_kinematics_2dof returns {} exactly when d is outside
\* [|L1 - L2|, L1 + L2], which is when C is outside [-1, 1], and a non-empty
\* result otherwise; lengths 1, 1 and target (3.5, 0) give {}.
C4_Annulus ==
    (/\ CalledIK
     /\ Len(links) = 2
     /\ Less(Zero, links[1].length) /\ Less(Zero, links[2].length)
     /\ Less(Zero, Distance(target)))
    => LET L1 == links[1].length
           L2 == links[2].length
           d == Distance(target)
       IN  /\ solutions.status = "return"
           /\ solutions.value = <<>> <=> ~InAnnulus(L1, L2, d)
           /\ Unreachable(CosC(L1, L2, Sq(d), d), rounding) <=> ~InAnnulus(L1, L2, d)
           /\ (L1 = One /\ L2 = One /\ target = <<Rat(7, 2), Zero>>)
                 => solutions.value = <<>>

\* C5: a normal return of inverse_kinematics_2dof is {} or has exactly the
\* keys "elbow_up" and "elbow_down", each with exactly the keys "q1" and
\* "q2" mapped to REVOLUTE Joints whose id is the key; with the target on
\* the outer boundary (d = L1 + L2) both branches are returned and are equal.
C5_Shape ==
    (CalledIK /\ solutions.status = "return") =>
        /\ \/ solutions.value = <<>>
           \/ /\ DOMAIN solutions.value = {"elbow_up", "elbow_down"}
              /\ \A branch \in DOMAIN solutions.value :
                    /\ DOMAIN solutions.value[branch] = {"q1", "q2"}
                    /\ \A k \in {"q1", "q2"} :
                          /\ isJoint(solutions.value[branch][k])
                          /\ solutions.value[branch][k].type = REVOLUTE
                          /\ solutions.value[branch][k].id = k
        /\ (/\ Len(links) >= 2
            /\ Distance(target) = Add(links[1].length, links[2].length))
           => /\ DOMAIN solutions.value = {"elbow_up", "elbow_down"}
              /\ solutions.value["elbow_up"] = solutions.value["elbow_down"]

\* C8 as stated: a call with a list of links that has not exactly two links
\* fails; it never returns a result computed from the first two links.
C8_FailsFast ==
    (CalledIK /\ Len(links) # 2) => solutions.status # "return"

\* C9 as stated: a target at the origin or a zero-length first or second
\* link is reported as an outcome of its own: not a ZeroDivisionError or a
\* ValueError out of the function, and not the {} of an unreachable target.
C9_Guarded ==
    (/\ CalledIK
     /\ Len(links) = 2
     /\ \/ target = Origin
        \/ links[1].length = Zero
        \/ links[2].length = Zero)
    => /\ solutions.status \notin {"ZeroDivisionError", "ValueError"}
       /\ solutions # Return(<<>>)

\* the call reaches line 77: two links at least, C is computed (2 * L1 * d
\* is not zero) and the test of line 72 lets it through
PassesReachabilityTest ==
    /\ Len(links) >= 2
    /\ Mul(Mul(Num(2), links[1].length), Distance(target)) # Zero
    /\ ~Unreachable(CosC(links[1].length, links[2].length,
                         Sq(Distance(target)), Distance(target)), rounding)

\* C11 as stated: with non-negative link lengths, whenever the reachability
\* test passes, B is defined (2 * L1 * L2 is not zero) and acos(B) is
\* evaluated inside its domain: the call raises neither ZeroDivisionError
\* nor ValueError and returns the two branches.
C11_Domain ==
    (/\ CalledIK
     /\ PassesReachabilityTest
     /\ Leq(Zero, links[1].length) /\ Leq(Zero, links[2].length))
    => LET L1 == links[1].length
           L2 == links[2].length
       IN  /\ Mul(Mul(Num(2), L1), L2) # Zero
           /\ ~AcosRaises(CosB(L1, L2, Sq(Distance(target))), rounding)
           /\ solutions.status = "return"

-----------------------------------------------------------------------------
(* Spec: the scenario of test.py.  setUp builds the robot                  *)
(* [joint1, link1, joint2, link2]; the tests assign joint angles, call     *)
(* forward_kinematics, call the inverse kinematics on the robot's two      *)
(* links and a target, and apply a returned branch with set_joint_angles.  *)

\* link lengths of the scenario (the test has 1.0 and 1.0)
TestLengths == {One, Num(2), Sqrt3}

\* the angles the test assigns: 0 and 90 degrees
TestAngles == {0, 3}

setUp(length1, length2) ==
    Robot(<<Joint("q1", REVOLUTE, 0), Link("l1", length1),
            Joint("q2", REVOLUTE, 0), Link("l2", length2)>>)

Init ==
    /\ \E length1, length2 \in TestLengths : robot = setUp(length1, length2)
    /\ links = LinksOf(robot)
    /\ target \in Targets
    /\ rounding \in Roundings(links, target)
    /\ IKOnGrid(links, target, rounding)
    /\ solutions = NoCall
    /\ positions = <<>>
    /\ op = [name |-> "init"]
    /\ sliders = NoSliders

\* joint.angle = a
AssignAngle ==
    \E i \in 1..Len(robot.components), a \in TestAngles :
        /\ isJoint(robot.components[i])
        /\ robot' = [robot EXCEPT !.components[i].angle = a]
        /\ positions' = <<>>
        /\ op' = [name |-> "assign"]
        /\ UNCHANGED <<links, target, rounding, solutions, sliders>>

\* set_joint_angles(self.robot, solutions[branch])
ApplySolution ==
    \E branch \in DOMAIN solutions.value :
        CallSetJointAngles(solutions.value[branch])

Next ==
    \/ AssignAngle
    \/ CallForwardKinematics
    \/ CallInverseKinematics
    \/ ApplySolution

Spec == Init /\ [][Next]_vars

-----------------------------------------------------------------------------
(* Claims about the scenario, under Spec.                                  *)

AngleOf(r, id) ==
    LET i == CHOOSE j \in 1..Len(r.components) : r.components[j].id = id
    IN  r.components[i].angle

\* the points rounded to 2 decimals, in hundredths
Rounded(points) ==
    [i \in 1..Len(points) |-> <<round2(points[i][1]), round2(points[i][2])>>]

UnitLinks == links[1].length = One /\ links[2].length = One

\* C2 as stated: forward_kinematics on [q1, l1, q2, l2] returns three
\* points (base, elbow, end effector): [(0,0), (1,0), (2,0)] with both
\* angles 0 and both lengths 1, and [(0,0), (0,1), (0,2)] after rounding
\* with both angles 90 degrees.
C2_ThreePoints ==
    CalledFK =>
        /\ Len(positions) = 3
        /\ (UnitLinks /\ AngleOf(robot, "q1") = 0 /\ AngleOf(robot, "q2") = 0)
              => positions = <<Origin, <<One, Zero>>, <<Num(2), Zero>>>>
        /\ (UnitLinks /\ AngleOf(robot, "q1") = 3 /\ AngleOf(robot, "q2") = 3)
              => Rounded(positions) = <<<<0, 0>>, <<0, 100>>, <<0, 200>>>>

\* the robot's joints have the angles of this branch of solutions
Applied(branch) ==
    /\ solutions.status = "return"
    /\ branch \in DOMAIN solutions.value
    /\ AngleOf(robot, "q1") = solutions.value[branch]["q1"].angle
    /\ AngleOf(robot, "q2") = solutions.value[branch]["q2"].angle

Dot(p, t) == Add(Mul(p[1], t[1]), Mul(p[2], t[2]))
Cross(p, t) == Sub(Mul(p[1], t[2]), Mul(p[2], t[1]))

\* q is the mirror image of p across the line from the origin through t
Mirrored(p, q, t) == Dot(p, t) = Dot(q, t) /\ Cross(p, t) = Neg(Cross(q, t))

\* the end of link 1 after set_joint_angles with this branch
ElbowOf(branch) ==
    forward_kinematics(set_joint_angles(robot, solutions.value[branch]).robot)
        .joint_positions[3]

\* the round trip and the mirror image, the part of C6 that holds
RoundTrip ==
    /\ \A branch \in {"elbow_up", "elbow_down"} :
          (Applied(branch) /\ positions # <<>>)
              => positions[Len(positions)] = target
    /\ (solutions.status = "return" /\ DOMAIN solutions.value # {})
          => /\ solutions.value["elbow_up"]["q2"].angle
                   = -solutions.value["elbow_down"]["q2"].angle
             /\ solutions.value["elbow_up"]["q1"].angle
                 + solutions.value["elbow_down"]["q1"].angle
                   = 2 * atan2(target[2], target[1])
             /\ Mirrored(ElbowOf("elbow_up"), ElbowOf("elbow_down"), target)

UnitCase == UnitLinks /\ target = <<One, Zero>> /\ positions # <<>>

-----------------------------------------------------------------------------
(* SpecGUI: the GUI of gui/gui.py with the Sliders of gui/sliders.py.      *)
(* self is the GUI object: its robot, the values of its slider widgets,    *)
(* and the list the canvas drew last (JointCanvas.__joint_positions).      *)
(* GUI.on_click also holds the result of its inverse-kinematics call and   *)
(* the copies it drew as ghost poses.  A slider value is a grid angle      *)
(* within the travel -3.14 .. 3.14 of the widget.                          *)

\* copy.deepcopy: a new object with equal fields; a write to the copy does
\* not reach the object copied
deepcopy(r) == r

\* Sliders.__init__: one tk.Scale per Joint, keyed by its id, at value 0
CreateSliders(r) ==
    [id \in {r.components[i].id : i \in {j \in 1..Len(r.components) : isJoint(r.components[j])}}
        |-> 0]

\* GUI.update: draw forward_kinematics(self.robot)
update(self) ==
    LET st == forward_kinematics(self.robot)
    IN  [self EXCEPT !.robot = st.robot, !.joint_positions = st.joint_positions]

\* an OnClickBody variant used to test the claims' formulas (not the code):
\* no copy is taken, the branch is applied to the GUI's own robot
OnClickBodyNoCopy(self, solution) ==
    LET applied == set_joint_angles(self.robot, solution)
        st == forward_kinematics(applied.robot)
    IN  [self EXCEPT !.robot = st.robot,
                     !.joint_positions = st.joint_positions,
                     !.ghosts = Append(@, st.robot)]

\* the loop body of GUI.on_click on one solution: copy, apply, draw
OnClickBody(self, solution) ==
    LET robot_copy == deepcopy(self.robot)
        applied == set_joint_angles(robot_copy, solution)
        st == forward_kinematics(applied.robot)
    IN  [self EXCEPT !.joint_positions = st.joint_positions,
                     !.ghosts = Append(@, st.robot)]

\* solutions.values(), in the order the dictionary was built
BranchOrder == <<"elbow_up", "elbow_down">>

Values(dict) == [i \in 1..Cardinality(DOMAIN dict) |-> dict[BranchOrder[i]]]

RECURSIVE OnClickLoop(_, _, _)
OnClickLoop(self, values, i) ==
    IF i > Len(values) THEN self
    ELSE OnClickLoop(OnClickBody(self, values[i]), values, i + 1)

\* GUI.on_click; an exception of inverse_kinematics_2dof ends the handler
\* after the redraw
on_click(self, click, fl) ==
    LET drawn == update(self)
        result == inverse_kinematics_2dof(LinksOf(drawn.robot), click, fl)
    IN  IF result.status = "return"
        THEN OnClickLoop([drawn EXCEPT !.solutions = result], Values(result.value), 1)
        ELSE [drawn EXCEPT !.solutions = result]

\* the loop body of Sliders.on_slider_change on component number i; only
\* Joints have sliders, so the Link branch needs a Link with a Joint's id
SliderBody(self, i) ==
    LET component == self.robot.components[i]
    IN  IF component.id \notin DOMAIN self.sliders THEN self
        ELSE IF isJoint(component)
        THEN [self EXCEPT !.robot.components[i].angle = self.sliders[component.id]]
        ELSE IF isLink(component)
        THEN [self EXCEPT !.robot.components[i].length = self.sliders[component.id]]
        ELSE self

RECURSIVE SliderLoop(_, _)
SliderLoop(self, i) ==
    IF i > Len(self.robot.components) THEN self ELSE SliderLoop(SliderBody(self, i), i + 1)

\* Sliders.on_slider_change: every component with a slider takes its
\* slider's value, then GUI.update
on_slider_change(self) == update(SliderLoop(self, 1))

\* the GUI object in the current state
Self ==
    [robot |-> robot, sliders |-> sliders, joint_positions |-> positions,
     solutions |-> solutions, ghosts |-> <<>>]

\* link lengths and initial joint angles of the robots given to the GUI
GuiLengths == {One, Sqrt3}
GuiAngles == {0, 2}

\* the robots given to the GUI: the two-link arm, and a one-link arm
GuiRobots ==
    {Robot(<<Joint("q1", REVOLUTE, a), Link("l1", length1),
             Joint("q2", REVOLUTE, 0), Link("l2", length2)>>) :
        a \in GuiAngles, length1 \in GuiLengths, length2 \in GuiLengths}
    \cup {Robot(<<Joint("q1", REVOLUTE, 2), Link("l1", One)>>)}

\* values a slider is moved to (0 and 90 degrees)
SliderValues == {0, 3}

\* the points clicked: the origin and four distances in two directions
\* (0 and -120 degrees), inside the axes -3 .. 3 of JointCanvas.clear
ClickRadii == {Zero, Half, One, Sqrt3, Num(2)}
ClickDirections == {0, -4}

Clicks ==
    {t \in {<<Mul(r, cos(k)), Mul(r, sin(k))>> : r \in ClickRadii, k \in ClickDirections} :
        /\ Leq(Num(-3), t[1]) /\ Leq(t[1], Num(3))
        /\ Leq(Num(-3), t[2]) /\ Leq(t[2], Num(3))}

\* GUI.__init__: the sliders are created and the robot is drawn
InitGUI ==
    /\ robot \in GuiRobots
    /\ sliders = CreateSliders(robot)
    /\ positions = forward_kinematics(robot).joint_positions
    /\ links = <<>>
    /\ target = Origin
    /\ rounding = NoError
    /\ solutions = NoCall
    /\ op = [name |-> "init"]

\* a left click on the canvas at the point click
Click ==
    \E click \in Clicks :
        \E fl \in Roundings(LinksOf(robot), click) :
            /\ IKOnGrid(LinksOf(robot), click, fl)
            /\ LET self == on_click(Self, click, fl)
               IN  /\ robot' = self.robot
                   /\ positions' = self.joint_positions
                   /\ solutions' = self.solutions
                   /\ links' = LinksOf(robot)
                   /\ target' = click
                   /\ rounding' = fl
                   /\ op' = [name |-> "on_click", pre |-> robot, ghosts |-> self.ghosts]
                   /\ UNCHANGED sliders

\* the user moves the slider id to value
SliderChange ==
    \E id \in DOMAIN sliders, value \in SliderValues :
        /\ value # sliders[id]
        /\ sliders' = [sliders EXCEPT ![id] = value]
        /\ LET self == on_slider_change([Self EXCEPT !.sliders = sliders'])
           IN  /\ robot' = self.robot
               /\ positions' = self.joint_positions
               /\ op' = [name |-> "on_slider_change", pre |-> robot]
        /\ UNCHANGED <<links, target, rounding, solutions>>

NextGUI == Click \/ SliderChange

SpecGUI == InitGUI /\ [][NextGUI]_vars

-----------------------------------------------------------------------------
(* Claims about the GUI, under SpecGUI.                                    *)

Clicked == op.name = "on_click"

\* C12: after any sequence of clicks and slider changes, a click leaves the
\* GUI's own robot as it was before the click (every joint angle and link
\* length, and the sliders): each returned branch is applied to a copy
\* only.  The robot differs from what it was before the latest handler
\* only when that handler is on_slider_change.
C12_ClickFrame ==
    /\ Clicked =>
          /\ robot = op.pre
          /\ links = LinksOf(op.pre)
          /\ \A i \in 1..Len(op.ghosts) :
                op.ghosts[i] = set_joint_angles(op.pre, solutions.value[BranchOrder[i]]).robot
    /\ (op.name # "init" /\ robot # op.pre) => op.name = "on_slider_change"

\* a click after a slider edit that returns two distinct branches: both
\* ghost poses differ from the robot, and the canvas shows the last one
C12_Witness ==
    /\ Clicked
    /\ Len(op.ghosts) = 2
    /\ op.ghosts[1] # op.ghosts[2]
    /\ op.ghosts[1] # robot /\ op.ghosts[2] # robot
    /\ AngleOf(robot, "q1") = 3 /\ sliders["q1"] = 3
    /\ positions = forward_kinematics(op.ghosts[2]).joint_positions
    /\ positions # forward_kinematics(robot).joint_positions

=============================================================================
